---- MODULE Spec2Model ----
(***************************************************************************)
(* A model of the ReCOP assembler core of src/src/main.rs: lex, the        *)
(* addressing-mode resolver, parse, and the packing of an instruction      *)
(* record into its 32-bit word.                                            *)
(*                                                                         *)
(* Text is modelled at the level of characters: a physical line is a       *)
(* sequence of one-character strings, as produced by                       *)
(* input.to_lowercase().trim().split("\n").map(trim) (main.rs:240,254).    *)
(***************************************************************************)
EXTENDS Integers, Sequences, FiniteSets, TLC

VARIABLES
    opcodes,        \* HashMap<String, Opcode>: the opcode table
    src,            \* the physical lines of the trimmed, lower-cased input
    pc,             \* "lex" | "parse" | "done" | "pack" | "packed" | "unpacked"
    li,             \* lex: number of physical lines consumed
    tokens,         \* lex: Vec<Vec<Token>>
    labels,         \* lex: HashMap<String, u16>
    pi,             \* parse: number of token lines consumed
    instructions,   \* parse: Vec<Inst>
    outcome,        \* "running" | "ok" | "err" | "panic"
    error,          \* the AsmError returned, when outcome = "err"
    inst,           \* packing: the record handed to to_bits
    word,           \* packing: the u32 loaded from the bits, as 4 bytes
    decoded         \* packing: the record read back from the word

vars == <<opcodes, src, pc, li, tokens, labels, pi, instructions, outcome,
          error, inst, word, decoded>>

----------------------------------------------------------------------------
(* Bounds of the model *)

MaxLines == 4

PackSpread == 0

----------------------------------------------------------------------------
(* Option<T>: None is <<>>, Some(x) is <<x>> *)

None == <<>>

Some(x) == <<x>>

UnwrapOr(o, d) == IF o = None THEN d ELSE o[1]

----------------------------------------------------------------------------
(* AddrMode (main.rs:37-42) *)

Inh == 0

Imm == 1

Dir == 2

Reg == 3

(* Width of the integer types *)

U8Max == 255

U16Max == 65535

(* let mut reg_args = [0u8; 2] (main.rs:382) *)

RegSlots == 2

----------------------------------------------------------------------------
(* str::parse::<u8/u16>: an optional '+', then one or more decimal digits, *)
(* the value within the type's range; anything else is Err.                *)

DigitVal ==
    ("0" :> 0) @@ ("1" :> 1) @@ ("2" :> 2) @@ ("3" :> 3) @@ ("4" :> 4) @@
    ("5" :> 5) @@ ("6" :> 6) @@ ("7" :> 7) @@ ("8" :> 8) @@ ("9" :> 9)

RECURSIVE DigitsValue(_, _)
DigitsValue(s, acc) ==
    IF s = <<>> THEN acc
    ELSE DigitsValue(Tail(s), acc * 10 + DigitVal[Head(s)])

ParseUnsigned(content, max) ==
    LET digits == IF content # <<>> /\ Head(content) = "+"
                  THEN Tail(content) ELSE content
    IN  IF digits = <<>> THEN None
        ELSE IF \E k \in 1..Len(digits) : digits[k] \notin DOMAIN DigitVal
        THEN None
        ELSE IF DigitsValue(digits, 0) > max THEN None
        ELSE Some(DigitsValue(digits, 0))

----------------------------------------------------------------------------
(* line.split(" ") (main.rs:263-266) *)

RECURSIVE SplitFrom(_, _, _)
SplitFrom(s, cur, acc) ==
    IF s = <<>> THEN Append(acc, cur)
    ELSE IF Head(s) = " "
    THEN SplitFrom(Tail(s), <<>>, Append(acc, cur))
    ELSE SplitFrom(Tail(s), Append(cur, Head(s)), acc)

Split(line) == SplitFrom(line, <<>>, <<>>)

(* Token::new (main.rs:122-129); chars is the constant placeholder (0, 0) *)
Token(kind, content, lineNum) ==
    [token |-> kind, content |-> content, line_num |-> lineNum]

(* The 'tokenize_line loop (main.rs:268-289) from symbol k on.  The result *)
(* is one of                                                               *)
(*   [kind |-> "line",  toks]  the loop ended (end of line or a comment)   *)
(*   [kind |-> "label", name]  continue 'line_loop after labels.insert     *)
(*   [kind |-> "panic"]        symbol[0] on an empty symbol                *)
RECURSIVE TokenizeLine(_, _, _, _)
TokenizeLine(symbols, k, i, acc) ==
    IF k > Len(symbols) THEN [kind |-> "line", toks |-> acc]
    ELSE LET symbol == symbols[k] IN
         IF symbol = <<>> THEN [kind |-> "panic"]
         ELSE IF symbol[1] = ";" THEN [kind |-> "line", toks |-> acc]
         ELSE IF symbol[1] = "r"
         THEN TokenizeLine(symbols, k + 1, i,
                           Append(acc, Token("Reg", Tail(symbol), i)))
         ELSE IF symbol[1] = "#"
         THEN TokenizeLine(symbols, k + 1, i,
                           Append(acc, Token("Imm", Tail(symbol), i)))
         ELSE IF symbol[1] = "$"
         THEN TokenizeLine(symbols, k + 1, i,
                           Append(acc, Token("Dir", Tail(symbol), i)))
         ELSE IF symbol[1] = "'"
         THEN TokenizeLine(symbols, k + 1, i,
                           Append(acc, Token("Label", Tail(symbol), i)))
         ELSE IF symbol[Len(symbol)] = ":"
         THEN [kind |-> "label", name |-> SubSeq(symbol, 1, Len(symbol) - 1)]
         ELSE TokenizeLine(symbols, k + 1, i,
                           Append(acc, Token("Opcode", symbol, i)))

(* tokens.len() as u16 (main.rs:280) *)
LabelAddrLineIndex(toks, i) == i % (U16Max + 1)

LabelAddr(toks, i) == Len(toks) % (U16Max + 1)

(* labels.insert(name, addr) (main.rs:278-281) *)
LabelsInsert(tbl, name, addr) == (name :> addr) @@ tbl

----------------------------------------------------------------------------
(* parse_addr_mode_operand (main.rs:299-334) *)

ModeOk(mode) == [kind |-> "ok", mode |-> mode]

ModeErr(err) == [kind |-> "err", err |-> err]

ParseAddrModeOperandNoDirCheck(operand_token, opcode) ==
    IF operand_token = "Reg"
    THEN IF UnwrapOr(opcode.reg, FALSE) THEN ModeOk(Reg) ELSE ModeErr("RegInvalid")
    ELSE IF operand_token \in {"Imm", "Label"}
    THEN IF UnwrapOr(opcode.imm, FALSE) THEN ModeOk(Imm) ELSE ModeErr("ImmInvalid")
    ELSE IF operand_token = "Dir"
    THEN ModeOk(Dir)
    ELSE IF UnwrapOr(opcode.inh, FALSE) THEN ModeOk(Inh) ELSE ModeErr("InhInvalid")

ParseAddrModeOperand(operand_token, opcode) ==
    IF operand_token = "Reg"
    THEN IF UnwrapOr(opcode.reg, FALSE) THEN ModeOk(Reg) ELSE ModeErr("RegInvalid")
    ELSE IF operand_token \in {"Imm", "Label"}
    THEN IF UnwrapOr(opcode.imm, FALSE) THEN ModeOk(Imm) ELSE ModeErr("ImmInvalid")
    ELSE IF operand_token = "Dir"
    THEN IF UnwrapOr(opcode.dir, FALSE) THEN ModeOk(Dir) ELSE ModeErr("DirInvalid")
    ELSE IF UnwrapOr(opcode.inh, FALSE) THEN ModeOk(Inh) ELSE ModeErr("InhInvalid")

----------------------------------------------------------------------------
(* The body of parse's loop (main.rs:343-408).  A step of it ends in       *)
(*   [kind |-> "ok", inst]          instructions.push(Inst {..})           *)
(*   [kind |-> "err", err, token]   return Err(AsmError::new(err, token))  *)
(*   [kind |-> "panic"]             an unwrap of None, an index out of     *)
(*                                  the bounds of reg_args                 *)

Ok(v) == [kind |-> "ok", value |-> v]

Err(err, token) == [kind |-> "err", err |-> err, token |-> token]

Panic == [kind |-> "panic"]

(* operand parse (main.rs:366-379) *)
OperandValue(addr_mode, operand, lbls) ==
    IF addr_mode = Inh THEN Ok(0)
    ELSE IF operand.token = "Label"
    THEN IF operand.content \in DOMAIN lbls
         THEN Ok(lbls[operand.content]) ELSE Panic
    ELSE LET value == ParseUnsigned(operand.content, U16Max)
         IN  IF value # None THEN Ok(value[1]) ELSE Err("ArgParse", operand)

(* other args must be regs (main.rs:382-392), from token index arg on *)
RECURSIVE RegArgs(_, _, _)
RegArgs(line, arg, reg_args) ==
    IF arg > Len(line) - 1 THEN Ok(reg_args)
    ELSE IF line[arg].token # "Reg" THEN Err("RegExpected", line[arg])
    ELSE LET value == ParseUnsigned(line[arg].content, U8Max)
             j == arg - 2
         IN  IF value = None THEN Err("ArgParse", line[arg])
             ELSE IF j >= RegSlots THEN Panic
             ELSE RegArgs(line, arg + 1, [reg_args EXCEPT ![j + 1] = value[1]])

(* the operand-as-register rule (main.rs:394-399); the result is the pair  *)
(* (reg_args, operand)                                                     *)
OperandAsRegAnyArgs(addr_mode, opcode, reg_args, operand) ==
    IF addr_mode = Reg /\ opcode.operand_as_reg # None
    THEN LET value == opcode.operand_as_reg[1]
         IN  IF value >= RegSlots THEN Panic
             ELSE Ok(<<[reg_args EXCEPT ![value + 1] = operand % (U8Max + 1)], 0>>)
    ELSE Ok(<<reg_args, operand>>)

OperandAsRegDefaultSlot(addr_mode, opcode, reg_args, operand) ==
    IF addr_mode = Reg /\ opcode.args < 3
    THEN LET value == UnwrapOr(opcode.operand_as_reg, 1)
         IN  IF value >= RegSlots THEN Panic
             ELSE Ok(<<[reg_args EXCEPT ![value + 1] = operand % (U8Max + 1)], 0>>)
    ELSE Ok(<<reg_args, operand>>)

OperandAsReg(addr_mode, opcode, reg_args, operand) ==
    IF addr_mode = Reg /\ opcode.args < 3 /\ opcode.operand_as_reg # None
    THEN LET value == opcode.operand_as_reg[1]
         IN  IF value >= RegSlots THEN Panic
             ELSE Ok(<<[reg_args EXCEPT ![value + 1] = operand % (U8Max + 1)], 0>>)
    ELSE Ok(<<reg_args, operand>>)

(* Inst (main.rs:11-21, 401-407) *)
Inst(addr_mode, opcode, reg_z, reg_x, operand) ==
    [addr_mode |-> addr_mode, opcode |-> opcode, reg_z |-> reg_z,
     reg_x |-> reg_x, operand |-> operand]

ParseInst(line, ops, lbls) ==
    IF line[1].token # "Opcode" THEN Err("OpcodeExpected", line[1])
    ELSE IF line[1].content \notin DOMAIN ops
    THEN Err("OpcodeUndefined", line[1])
    ELSE
    LET opcode == ops[line[1].content] IN
    IF opcode.args # Len(line) - 1 THEN Err("ArgsNumber", line[1])
    ELSE
    LET operand == line[Len(line)]
        addr_mode == ParseAddrModeOperand(operand.token, opcode)
    IN
    IF addr_mode.kind = "err" THEN Err(addr_mode.err, operand)
    ELSE
    LET value == OperandValue(addr_mode.mode, operand, lbls) IN
    IF value.kind # "ok" THEN value
    ELSE
    LET reg_args == RegArgs(line, 2, [j \in 1..RegSlots |-> 0]) IN
    IF reg_args.kind # "ok" THEN reg_args
    ELSE
    LET final == OperandAsReg(addr_mode.mode, opcode, reg_args.value, value.value) IN
    IF final.kind # "ok" THEN final
    ELSE Ok(Inst(addr_mode.mode, opcode.opcode, final.value[1][1],
                 final.value[1][2], final.value[2]))

----------------------------------------------------------------------------
(* x.to_bits().unwrap().load_be() (main.rs:193-196) over the layout of     *)
(* Inst (main.rs:9-21): [addr_mode:2][opcode:6][reg_z:4][reg_x:4]          *)
(* [operand:16], most significant first; and the read of the same layout   *)
(* that DekuRead derives.  The u32 is held as its four bytes, most         *)
(* significant first (the digits of the word in base 256), since the word  *)
(* itself exceeds the integers TLC computes with:                          *)
(*   word = b[1]*2^24 + b[2]*2^16 + b[3]*2^8 + b[4].                       *)

PackOverlapping(x) ==
    << x.addr_mode * 2^6 + x.opcode,
       (x.reg_z * 2^4 + x.reg_x * 2^4) % 2^8,
       x.operand \div 2^8,
       x.operand % 2^8 >>

Pack(x) ==
    << x.addr_mode * 2^6 + x.opcode,
       x.reg_z * 2^4 + x.reg_x,
       x.operand \div 2^8,
       x.operand % 2^8 >>

Unpack(w) ==
    Inst(w[1] \div 2^6, w[1] % 2^6, w[2] \div 2^4, w[2] % 2^4,
         w[3] * 2^8 + w[4])

----------------------------------------------------------------------------
(* The inputs: symbols, lines and opcode tables *)

RECURSIVE Join(_)
Join(symbols) ==
    IF symbols = <<>> THEN <<>>
    ELSE IF Len(symbols) = 1 THEN symbols[1]
    ELSE symbols[1] \o <<" ">> \o Join(Tail(symbols))

SymMov == <<"m", "o", "v">>

SymJmp == <<"j", "m", "p">>

SymNop == <<"n", "o", "p">>

SymFoo == <<"f", "o", "o">>

SymR1 == <<"r", "1">>

SymR2 == <<"r", "2">>

SymR258 == <<"r", "2", "5", "8">>

SymImm5 == <<"#", "5">>

SymDir7 == <<"$", "7">>

SymRefA == <<"'", "a">>

SymRefB == <<"'", "b">>

SymDeclA == <<"a", ":">>

SymDeclC == <<"c", ":">>

NameA == <<"a">>

NameB == <<"b">>

NameC == <<"c">>

OpcodeDef(opcode, args, inh, imm, reg, dir, operand_as_reg) ==
    [opcode |-> opcode, args |-> args, inh |-> inh, imm |-> imm, reg |-> reg,
     dir |-> dir, operand_as_reg |-> operand_as_reg]

(* The table of the program-level runs: mov and jmp as in the scenarios of  *)
(* the specification, nop an inherent instruction.                          *)
ProgTable ==
    (SymMov :> OpcodeDef(1, 2, None, Some(TRUE), Some(TRUE), None, None)) @@
    (SymJmp :> OpcodeDef(2, 1, None, Some(TRUE), None, None, None)) @@
    (SymNop :> OpcodeDef(3, 0, Some(TRUE), None, None, None, None))

BlankLine == <<>>

CommentLine == Join(<<<<";">>, <<"x">>>>)

ProgLines ==
    { BlankLine, CommentLine, SymDeclA, SymDeclC, SymNop,
      Join(<<SymJmp, SymRefA>>), Join(<<SymJmp, SymRefB>>),
      Join(<<SymFoo, SymR1, SymR2>>), Join(<<SymNop, SymR1>>),
      Join(<<SymDeclA, SymJmp, SymRefA>>) }

(* input.trim() leaves no blank line at either end of a text of several    *)
(* lines; the empty text is the one blank line.                            *)
Trimmed(text) ==
    /\ Len(text) >= 1
    /\ Len(text) > 1 => text[1] # BlankLine /\ text[Len(text)] # BlankLine

ProgSources ==
    { text \in UNION { [1..n -> ProgLines] : n \in 1..MaxLines } : Trimmed(text) }

(* The opcode definitions of the line-level runs: every args in            *)
(* 0..RegSlots+1, every set of enabled modes, a disabled mode absent or    *)
(* Some(false), operand_as_reg absent, 0 or 1.                             *)
MaxArgs == RegSlots + 1

Flag(on, off) == IF on THEN Some(TRUE) ELSE off

LineDefs ==
    { OpcodeDef(1, args, Flag(inh, off), Flag(imm, off), Flag(reg, off),
                Flag(dir, off), oar) :
        args \in 0..MaxArgs, inh \in BOOLEAN, imm \in BOOLEAN,
        reg \in BOOLEAN, dir \in BOOLEAN, off \in {None, Some(FALSE)},
        oar \in {None} \cup { Some(k) : k \in 0..(RegSlots - 1) } }

MiddleSymbols == { SymR1, SymR2, SymImm5 }

TrailingSymbols ==
    { SymR1, SymR2, SymR258, SymImm5, SymDir7, SymRefA, SymMov }

(* mov, then up to RegSlots middle symbols, then at most one more symbol *)
LineInstructions ==
    { Join(<<SymMov>> \o mid \o last) :
        mid \in UNION { [1..m -> MiddleSymbols] : m \in 0..RegSlots },
        last \in {<<>>} \cup { <<t>> : t \in TrailingSymbols } }

NoInst == Inst(0, 0, 0, 0, 0)

NoWord == <<0, 0, 0, 0>>

NoError == [err |-> "", token |-> Token("", <<>>, 0)]

----------------------------------------------------------------------------
(* assemble (main.rs:235-251): lex, then parse *)

InitWith(table, text) ==
    /\ opcodes = table
    /\ src = text
    /\ pc = "lex"
    /\ li = 0
    /\ tokens = <<>>
    /\ labels = <<>>
    /\ pi = 0
    /\ instructions = <<>>
    /\ outcome = "running"
    /\ error = NoError
    /\ inst = NoInst
    /\ word = NoWord
    /\ decoded = NoInst

Init == \E text \in ProgSources : InitWith(ProgTable, text)

InitLine ==
    \E def \in LineDefs, line \in LineInstructions :
        InitWith(SymMov :> def, <<line, SymDeclA>>)

(* One iteration of 'line_loop (main.rs:258-294) *)
LexLine ==
    /\ pc = "lex"
    /\ li < Len(src)
    /\ li' = li + 1
    /\ LET line == src[li + 1]
           r == TokenizeLine(Split(line), 1, li, <<>>)
       IN  IF Len(line) = 0
           THEN UNCHANGED <<tokens, labels, pc, outcome>>
           ELSE IF r.kind = "panic"
           THEN /\ pc' = "done"
                /\ outcome' = "panic"
                /\ UNCHANGED <<tokens, labels>>
           ELSE IF r.kind = "label"
           THEN /\ labels' = LabelsInsert(labels, r.name, LabelAddr(tokens, li))
                /\ UNCHANGED <<tokens, pc, outcome>>
           ELSE /\ tokens' = IF Len(r.toks) > 0 THEN Append(tokens, r.toks)
                             ELSE tokens
                /\ UNCHANGED <<labels, pc, outcome>>
    /\ UNCHANGED <<opcodes, src, pi, instructions, error, inst, word, decoded>>

(* lex returns (tokens, labels) and assemble calls parse (main.rs:296,250) *)
LexReturn ==
    /\ pc = "lex"
    /\ li = Len(src)
    /\ pc' = "parse"
    /\ UNCHANGED <<opcodes, src, li, tokens, labels, pi, instructions,
                   outcome, error, inst, word, decoded>>

(* One iteration of parse's loop (main.rs:343-408) *)
ParseLine ==
    /\ pc = "parse"
    /\ pi < Len(tokens)
    /\ pi' = pi + 1
    /\ LET r == ParseInst(tokens[pi + 1], opcodes, labels)
       IN  IF r.kind = "ok"
           THEN /\ instructions' = Append(instructions, r.value)
                /\ UNCHANGED <<pc, outcome, error>>
           ELSE IF r.kind = "err"
           THEN /\ pc' = "done"
                /\ outcome' = "err"
                /\ error' = [err |-> r.err, token |-> r.token]
                /\ instructions' = <<>>
           ELSE /\ pc' = "done"
                /\ outcome' = "panic"
                /\ instructions' = <<>>
                /\ UNCHANGED error
    /\ UNCHANGED <<opcodes, src, li, tokens, labels, inst, word, decoded>>

(* Ok(instructions) (main.rs:409) *)
ParseReturn ==
    /\ pc = "parse"
    /\ pi = Len(tokens)
    /\ pc' = "done"
    /\ outcome' = "ok"
    /\ UNCHANGED <<opcodes, src, li, tokens, labels, pi, instructions, error,
                   inst, word, decoded>>

Next == LexLine \/ LexReturn \/ ParseLine \/ ParseReturn

Spec == Init /\ [][Next]_vars

SpecLine == InitLine /\ [][Next]_vars

----------------------------------------------------------------------------
(* The packing of one record (main.rs:193-196) and its read back *)

(* The values of a field of the given width that lie within PackSpread of  *)
(* either end of its range.                                                *)
FieldValues(bits) ==
    { v \in 0..(2^bits - 1) : v <= PackSpread \/ v >= 2^bits - 1 - PackSpread }

PackRecords ==
    { Inst(a, o, z, x, n) :
        a \in 0..3, o \in FieldValues(6), z \in FieldValues(4),
        x \in FieldValues(4), n \in FieldValues(16) }

InitPack ==
    /\ opcodes = <<>>
    /\ src = <<>>
    /\ pc = "pack"
    /\ li = 0
    /\ tokens = <<>>
    /\ labels = <<>>
    /\ pi = 0
    /\ instructions = <<>>
    /\ outcome = "ok"
    /\ error = NoError
    /\ inst \in PackRecords
    /\ word = NoWord
    /\ decoded = NoInst

PackInst ==
    /\ pc = "pack"
    /\ word' = Pack(inst)
    /\ pc' = "packed"
    /\ UNCHANGED <<opcodes, src, li, tokens, labels, pi, instructions,
                   outcome, error, inst, decoded>>

UnpackWord ==
    /\ pc = "packed"
    /\ decoded' = Unpack(word)
    /\ pc' = "unpacked"
    /\ UNCHANGED <<opcodes, src, li, tokens, labels, pi, instructions,
                   outcome, error, inst, word>>

NextPack == PackInst \/ UnpackWord

SpecPack == InitPack /\ [][NextPack]_vars

----------------------------------------------------------------------------
(* Vocabulary of the properties *)

Done == pc = "done"

Trailing(line) == line[Len(line)]

(* The physical lines (1-based) on which name is declared *)
DeclLines(name) ==
    { d \in 1..Len(src) :
        \E k \in 1..Len(Split(src[d])) : Split(src[d])[k] = name \o <<":">> }

(* The number of token lines that come from physical lines before line d *)
InstructionLinesBefore(d) ==
    Cardinality({ k \in 1..Len(tokens) : tokens[k][1].line_num < d - 1 })

(* The number a token of the inputs stands for, read off its text; the     *)
(* label a of the line-level runs is declared after the one instruction.   *)
TokenNumber(tok) ==
    IF tok.token = "Label" THEN 1
    ELSE IF tok.content = <<"1">> THEN 1
    ELSE IF tok.content = <<"2">> THEN 2
    ELSE IF tok.content = <<"5">> THEN 5
    ELSE IF tok.content = <<"7">> THEN 7
    ELSE 258

(* The value of the middle token that belongs to register slot s (1 or 2) *)
MiddleNumber(line, s) ==
    IF s <= Len(line) - 2 THEN TokenNumber(line[s + 1]) ELSE 0

RegSymbol(n) == IF n = 1 THEN SymR1 ELSE SymR2

Slot(record, s) == IF s = 1 THEN record.reg_z ELSE record.reg_x

----------------------------------------------------------------------------
(* C1: for every table and every single-spaced source, assemble ends in    *)
(* Ok(records) or in Err(AsmError) and in no other outcome (no panic),     *)
(* also when a trailing label reference names a label declared nowhere.    *)
C1_OkOrErr == Done => outcome \in {"ok", "err"}

(* C2: with jmp taking one immediate operand, the single line              *)
(* "a: jmp 'a" yields exactly one token line [Opcode jmp, Label a] and,    *)
(* after parse, one instruction record with operand 0.                     *)
C2_LabelThenInstruction ==
    (Done /\ src = <<Join(<<SymDeclA, SymJmp, SymRefA>>)>>) =>
        /\ tokens = << <<Token("Opcode", SymJmp, 0), Token("Label", NameA, 0)>> >>
        /\ outcome = "ok"
        /\ Len(instructions) = 1
        /\ instructions[1].operand = 0

(* C3: when label L is declared exactly once, on a line of its own, every  *)
(* instruction whose trailing token is 'L is encoded with operand equal to *)
(* the number of instruction-producing lines before the declaration,       *)
(* whether the reference stands before or after the declaration and        *)
(* whatever blank, comment or label-only lines the source holds.           *)
C3_LabelAddress ==
    (Done /\ outcome = "ok") =>
        \A name \in {NameA, NameB, NameC} : \A d \in 1..Len(src) :
            (DeclLines(name) = {d} /\ src[d] = name \o <<":">>) =>
                \A j \in 1..Len(tokens) :
                    (Trailing(tokens[j]).token = "Label"
                     /\ Trailing(tokens[j]).content = name) =>
                        instructions[j].operand = InstructionLinesBefore(d)

(* C3 witness: a source assembled with a reference to a before and one     *)
(* after its declaration, a blank line before the declaration, and a       *)
(* non-zero address.                                                       *)
C3_Witness ==
    /\ Done /\ outcome = "ok"
    /\ \E d \in 1..Len(src) :
        /\ DeclLines(NameA) = {d} /\ src[d] = SymDeclA
        /\ \E b \in 1..(d - 1) : src[b] = BlankLine
        /\ \E j, k \in 1..Len(tokens) :
            /\ Trailing(tokens[j]).token = "Label"
            /\ Trailing(tokens[k]).token = "Label"
            /\ tokens[j][1].line_num < d - 1
            /\ tokens[k][1].line_num > d - 1
            /\ instructions[j].operand = 1
            /\ instructions[k].operand = 1

(* The case of C4: mov declared with args = 2, register mode supported and *)
(* no operand_as_reg, and the line "mov rA rB".                            *)
C4_Case(A, B) ==
    /\ Done
    /\ opcodes[SymMov].args = 2
    /\ opcodes[SymMov].reg = Some(TRUE)
    /\ opcodes[SymMov].operand_as_reg = None
    /\ src[1] = Join(<<SymMov, RegSymbol(A), RegSymbol(B)>>)

(* C4 as stated: "op rA rB" is encoded as addr_mode = Register (3),        *)
(* reg_z = A, reg_x = B, operand = 0.                                      *)
C4_RegisterBothSlots ==
    \A A, B \in {1, 2} :
        C4_Case(A, B) =>
            /\ outcome = "ok"
            /\ instructions = <<Inst(3, opcodes[SymMov].opcode, A, B, 0)>>

(* C4 as amended: "op rA rB" is encoded as addr_mode = Register (3),       *)
(* reg_z = A, reg_x = 0, operand = B; "mov r1 r2" gives reg_z = 1,         *)
(* reg_x = 0, operand = 2.                                                 *)
C4_RegisterOperandField ==
    \A A, B \in {1, 2} :
        C4_Case(A, B) =>
            /\ outcome = "ok"
            /\ instructions = <<Inst(3, opcodes[SymMov].opcode, A, 0, B)>>

(* C4 witness: "mov r1 r2" assembled under such a definition *)
C4_Witness == C4_Case(1, 2) /\ outcome = "ok" /\ Len(instructions) = 1

(* Whether the operand-as-register rule applies to record j *)
C5_Fires(j) ==
    /\ instructions[j].addr_mode = Reg
    /\ opcodes[tokens[j][1].content].args < 3
    /\ opcodes[tokens[j][1].content].operand_as_reg # None

(* The value resolved from the trailing token of line j *)
C5_Resolved(j) ==
    IF instructions[j].addr_mode = Inh THEN 0
    ELSE TokenNumber(Trailing(tokens[j]))

C5_Rule(j, written) ==
    LET record == instructions[j]
        k == opcodes[tokens[j][1].content].operand_as_reg[1] + 1
    IN  IF C5_Fires(j)
        THEN /\ record.operand = 0
             /\ Slot(record, k) = written
             /\ Slot(record, 3 - k) = MiddleNumber(tokens[j], 3 - k)
        ELSE /\ record.operand = C5_Resolved(j)
             /\ record.reg_z = MiddleNumber(tokens[j], 1)
             /\ record.reg_x = MiddleNumber(tokens[j], 2)

(* C5 as stated: the resolved trailing value is written into register slot *)
(* k and the operand field is 0 if and only if the mode is Register, args  *)
(* is less than 3 and operand_as_reg = k; otherwise the operand field is   *)
(* the resolved value and the slots hold the middle register values.       *)
C5_OperandAsRegExact ==
    (Done /\ outcome = "ok") =>
        \A j \in 1..Len(instructions) : C5_Rule(j, C5_Resolved(j))

(* C5 as amended: as stated, except that slot k receives the resolved      *)
(* value truncated to 8 bits (the value modulo 256).                       *)
C5_OperandAsRegTruncated ==
    (Done /\ outcome = "ok") =>
        \A j \in 1..Len(instructions) : C5_Rule(j, C5_Resolved(j) % 256)

(* C5 witness: "mov r1 r258" with args = 2 and operand_as_reg = 1: the     *)
(* rule applies and slot 1 receives 258 mod 256.                           *)
C5_Witness ==
    /\ Done /\ outcome = "ok"
    /\ src[1] = Join(<<SymMov, SymR1, SymR258>>)
    /\ opcodes[SymMov].operand_as_reg = Some(1)
    /\ instructions = <<Inst(Reg, opcodes[SymMov].opcode, 1, 2, 0)>>

(* The error a line of the given shape must end in when the mode its       *)
(* trailing token asks for is not enabled ("" when the mode is enabled).   *)
C6_Expected(line, def) ==
    IF Len(line) = 1
    THEN IF UnwrapOr(def.inh, FALSE) THEN "" ELSE "InhInvalid"
    ELSE IF Trailing(line).token = "Reg"
    THEN IF UnwrapOr(def.reg, FALSE) THEN "" ELSE "RegInvalid"
    ELSE IF Trailing(line).token \in {"Imm", "Label"}
    THEN IF UnwrapOr(def.imm, FALSE) THEN "" ELSE "ImmInvalid"
    ELSE IF Trailing(line).token = "Dir"
    THEN IF UnwrapOr(def.dir, FALSE) THEN "" ELSE "DirInvalid"
    ELSE ""

C6_Fails(line, def) ==
    C6_Expected(line, def) # "" =>
        /\ outcome = "err"
        /\ error.err = C6_Expected(line, def)
        /\ error.token = Trailing(line)

(* C6 as stated: for an opcode whose inherent / register / immediate /     *)
(* direct flag is false or absent, the mnemonic alone fails with           *)
(* InhInvalid and a line with a trailing Reg / Imm-or-label / Dir token    *)
(* fails with RegInvalid / ImmInvalid / DirInvalid, for every declared     *)
(* args of the opcode.                                                     *)
C6_ModeErrorAnyArgs ==
    (Done /\ Len(tokens) = 1 /\ tokens[1][1].content \in DOMAIN opcodes) =>
        C6_Fails(tokens[1], opcodes[tokens[1][1].content])

(* C6 as amended: the same, for a line whose number of operand tokens      *)
(* equals the declared args of the opcode (any other line fails with       *)
(* ArgsNumber before the mode is looked at).                               *)
C6_ModeErrorMatchingArgs ==
    (Done /\ Len(tokens) = 1 /\ tokens[1][1].content \in DOMAIN opcodes) =>
        LET def == opcodes[tokens[1][1].content]
        IN  IF def.args = Len(tokens[1]) - 1
            THEN C6_Fails(tokens[1], def)
            ELSE outcome = "err" /\ error.err = "ArgsNumber"

(* C6 witness: a three-token line with a trailing Dir token, args = 2 and  *)
(* direct mode explicitly false, refused with DirInvalid.                  *)
C6_Witness ==
    /\ Done /\ outcome = "err" /\ error.err = "DirInvalid"
    /\ Len(tokens[1]) = 3
    /\ opcodes[SymMov].dir = Some(FALSE)
    /\ opcodes[SymMov].args = 2

(* C7: parse is fail-fast in source order: if a line violates a rule, the  *)
(* result is Err with the error of the earliest such line, no instruction  *)
(* record is returned, and the token's line_num is the physical index of   *)
(* that line; "foo r1 r2" yields OpcodeUndefined with content "foo".       *)
C7_FailFast ==
    Done =>
        LET bad == { j \in 1..Len(tokens) :
                       ParseInst(tokens[j], opcodes, labels).kind = "err" }
        IN  bad # {} =>
            LET j == CHOOSE m \in bad : \A n \in bad : m <= n
                r == ParseInst(tokens[j], opcodes, labels)
            IN  /\ outcome = "err"
                /\ error = [err |-> r.err, token |-> r.token]
                /\ instructions = <<>>
                /\ Split(src[error.token.line_num + 1])[1] = tokens[j][1].content
                /\ tokens[j][1].content = SymFoo =>
                       /\ error.err = "OpcodeUndefined"
                       /\ error.token.content = SymFoo

C9_NeverRedefined ==
    [][\A name \in DOMAIN labels :
           name \in DOMAIN labels' /\ labels'[name] = labels[name]]_vars

(* C10: a record with addr_mode = Inherent comes only from a line that is  *)
(* the mnemonic alone: a line with tokens after the mnemonic gives an      *)
(* error or a record in Immediate, Direct or Register mode, and every      *)
(* Inherent record has reg_z = reg_x = operand = 0.                        *)
C10_InherentOnlyAlone ==
    (Done /\ outcome = "ok") =>
        \A j \in 1..Len(instructions) :
            /\ Len(tokens[j]) > 1 => instructions[j].addr_mode \in {Imm, Dir, Reg}
            /\ instructions[j].addr_mode = Inh =>
                   instructions[j] = Inst(Inh, instructions[j].opcode, 0, 0, 0)

====
